---- MODULE Spec2Model ----
(***************************************************************************)
(* The NFS client input plugin (plugins/inputs/nfsclient/nfsclient.go):    *)
(* NFSClient.Init builds the operation tables and the mount filters,       *)
(* Gather scans a mountstats file line by line (processText), and every    *)
(* accepted line is converted (convertToUint64) and classified (parseStat).*)
(*                                                                         *)
(* Text is modelled as TLA+ strings and handled character by character, so *)
(* tokenising, colon stripping, splitting on "/" and decimal parsing are   *)
(* computed as the Go code computes them.  uint64 is modelled with         *)
(* UintBits bits (TLC's integers are 32 bits wide); every arithmetic       *)
(* operation of the code keeps that width.                                 *)
(***************************************************************************)
EXTENDS Integers, Sequences, FiniteSets, TLC

VARIABLES
    Fullstat,            \* NFSClient.Fullstat
    IncludeMounts,       \* NFSClient.IncludeMounts (patterns, as configured)
    ExcludeMounts,       \* NFSClient.ExcludeMounts
    IncludeOperations,   \* NFSClient.IncludeOperations
    ExcludeOperations,   \* NFSClient.ExcludeOperations
    nfs3Ops,             \* NFSClient.nfs3Ops (the keys of the map)
    nfs4Ops,             \* NFSClient.nfs4Ops
    includeMountRegex,   \* NFSClient.includeMountRegex (compiled patterns)
    excludeMountRegex,   \* NFSClient.excludeMountRegex
    file,                \* the lines of the mountstats file, as text
    pc,                  \* where the plugin is
    pos,                 \* lines taken from the scanner in this cycle
    mount,               \* processText: var mount
    version,             \* processText: var version
    export,              \* processText: var export
    acc,                 \* the metrics handed to the accumulator this cycle
    calls                \* the parseStat calls of this cycle, in order

vars == <<Fullstat, IncludeMounts, ExcludeMounts, IncludeOperations,
          ExcludeOperations, nfs3Ops, nfs4Ops, includeMountRegex,
          excludeMountRegex, file, pc, pos, mount, version, export, acc, calls>>

config == <<Fullstat, IncludeMounts, ExcludeMounts, IncludeOperations,
            ExcludeOperations>>

tables == <<nfs3Ops, nfs4Ops, includeMountRegex, excludeMountRegex>>

-----------------------------------------------------------------------------
(* Bounds of the model. *)

\* Width of the modelled uint64.
UintBits == 20

\* Longest mountstats file of scanner-level lines.
MaxLines == 3

\* Most statistics lines after a mount block's head.
MaxStatLines == 2

-----------------------------------------------------------------------------
(* Strings. *)

Char(s, i) == SubSeq(s, i, i)

Range(f) == {f[i] : i \in DOMAIN f}

SeqsUpTo(S, n) == UNION {[1..k -> S] : k \in 0..n}

\* unicode.IsSpace, for the characters a scanned line can hold here
IsSpace(c) == c = " " \/ c = "\t"

RECURSIVE FieldsFrom(_, _, _, _)
FieldsFrom(s, i, cur, out) ==
    IF i > Len(s)
    THEN IF Len(cur) = 0 THEN out ELSE Append(out, cur)
    ELSE IF IsSpace(Char(s, i))
         THEN FieldsFrom(s, i + 1, "", IF Len(cur) = 0 THEN out ELSE Append(out, cur))
         ELSE FieldsFrom(s, i + 1, cur \o Char(s, i), out)

\* strings.Fields: the maximal runs of non-space characters
Fields(s) == FieldsFrom(s, 1, "", <<>>)

\* the position of the first occurrence of character c in s, 0 when absent
IndexOf(s, c) ==
    IF \E i \in 1..Len(s) : Char(s, i) = c
    THEN CHOOSE i \in 1..Len(s) :
             Char(s, i) = c /\ \A j \in 1..(i - 1) : Char(s, j) # c
    ELSE 0

\* strings.Replace(s, ":", "", 1)
ReplaceFirstColon(s) ==
    LET i == IndexOf(s, ":")
    IN  IF i = 0 THEN s ELSE SubSeq(s, 1, i - 1) \o SubSeq(s, i + 1, Len(s))

RECURSIVE SplitFrom(_, _, _, _, _)
SplitFrom(s, sep, i, cur, out) ==
    IF i > Len(s)
    THEN Append(out, cur)
    ELSE IF Char(s, i) = sep
         THEN SplitFrom(s, sep, i + 1, "", Append(out, cur))
         ELSE SplitFrom(s, sep, i + 1, cur \o Char(s, i), out)

\* strings.Split(s, sep) for a one-character separator
Split(s, sep) == SplitFrom(s, sep, 1, "", <<>>)

\* choice.Contains(choice, choices)
Contains(choice, choices) == \E i \in 1..Len(choices) : choices[i] = choice

-----------------------------------------------------------------------------
(* Numbers. *)

MaxUint64 == 2^UintBits - 1

Wrap(n) == n % (MaxUint64 + 1)

DecimalDigits ==
    [c \in {"0", "1", "2", "3", "4", "5", "6", "7", "8", "9"} |->
        CHOOSE d \in 0..9 : Char("0123456789", d + 1) = c]

IsDigit(c) == c \in DOMAIN DecimalDigits

DigitOf(c) == DecimalDigits[c]

RECURSIVE ParseFrom(_, _, _)
ParseFrom(s, i, n) ==
    IF i > Len(s)
    THEN [val |-> n, err |-> "nil"]
    ELSE IF ~IsDigit(Char(s, i))
         THEN [val |-> 0, err |-> "syntax"]
         ELSE IF n * 10 + DigitOf(Char(s, i)) > MaxUint64
              THEN [val |-> MaxUint64, err |-> "range"]
              ELSE ParseFrom(s, i + 1, n * 10 + DigitOf(Char(s, i)))

\* strconv.ParseUint(s, 10, 64): the digits are read left to right, a
\* character that is no digit ends it with ErrSyntax and value 0, a value
\* leaving the range ends it with ErrRange.
ParseUint(s) ==
    IF Len(s) = 0 THEN [val |-> 0, err |-> "syntax"] ELSE ParseFrom(s, 1, 0)

RECURSIVE ConvertFrom(_, _, _)
ConvertFrom(line, i, nline) ==
    IF i > Len(line)
    THEN [nline |-> nline, err |-> FALSE]
    ELSE LET r == ParseUint(line[i])
         IN  IF r.err = "range"
             THEN [nline |-> <<>>, err |-> TRUE]
             ELSE ConvertFrom(line, i + 1, Append(nline, r.val))

\* a conversion that keeps going after a range error, with the value
\* ParseUint returned
convertKeepingRangeErrors(line) ==
    [nline |-> [i \in 1..(Len(line) - 1) |-> ParseUint(line[i + 1]).val],
     err |-> FALSE]

convertToUint64(line) ==
    IF Len(line) < 2
    THEN [nline |-> <<>>, err |-> FALSE]
    ELSE ConvertFrom(line, 2, <<>>)

-----------------------------------------------------------------------------
(* The fixed tables of Init and parseStat. *)

nfs3Fields ==
    {"NULL", "GETATTR", "SETATTR", "LOOKUP", "ACCESS", "READLINK", "READ",
     "WRITE", "CREATE", "MKDIR", "SYMLINK", "MKNOD", "REMOVE", "RMDIR",
     "RENAME", "LINK", "READDIR", "READDIRPLUS", "FSSTAT", "FSINFO",
     "PATHCONF", "COMMIT"}

nfs4Fields ==
    {"NULL", "READ", "WRITE", "COMMIT", "OPEN", "OPEN_CONFIRM", "OPEN_NOATTR",
     "OPEN_DOWNGRADE", "CLOSE", "SETATTR", "FSINFO", "RENEW", "SETCLIENTID",
     "SETCLIENTID_CONFIRM", "LOCK", "LOCKT", "LOCKU", "ACCESS", "GETATTR",
     "LOOKUP", "LOOKUP_ROOT", "REMOVE", "RENAME", "LINK", "SYMLINK", "CREATE",
     "PATHCONF", "STATFS", "READLINK", "READDIR", "SERVER_CAPS", "DELEGRETURN",
     "GETACL", "SETACL", "FS_LOCATIONS", "RELEASE_LOCKOWNER", "SECINFO",
     "FSID_PRESENT", "EXCHANGE_ID", "CREATE_SESSION", "DESTROY_SESSION",
     "SEQUENCE", "GET_LEASE_TIME", "RECLAIM_COMPLETE", "LAYOUTGET",
     "GETDEVICEINFO", "LAYOUTCOMMIT", "LAYOUTRETURN", "SECINFO_NO_NAME",
     "TEST_STATEID", "FREE_STATEID", "GETDEVICELIST", "BIND_CONN_TO_SESSION",
     "DESTROY_CLIENTID", "SEEK", "ALLOCATE", "DEALLOCATE", "LAYOUTSTATS",
     "CLONE", "COPY", "OFFLOAD_CANCEL", "LOOKUPP", "LAYOUTERROR",
     "COPY_NOTIFY", "GETXATTR", "SETXATTR", "LISTXATTRS", "REMOVEXATTR"}

eventsFields ==
    <<"inoderevalidates", "dentryrevalidates", "datainvalidates",
      "attrinvalidates", "vfsopen", "vfslookup", "vfsaccess", "vfsupdatepage",
      "vfsreadpage", "vfsreadpages", "vfswritepage", "vfswritepages",
      "vfsgetdents", "vfssetattr", "vfsflush", "vfsfsync", "vfslock",
      "vfsrelease", "congestionwait", "setattrtrunc", "extendwrite",
      "sillyrenames", "shortreads", "shortwrites", "delay", "pnfsreads",
      "pnfswrites">>

bytesFields ==
    <<"normalreadbytes", "normalwritebytes", "directreadbytes",
      "directwritebytes", "serverreadbytes", "serverwritebytes", "readpages",
      "writepages">>

xprtudpFields ==
    <<"bind_count", "rpcsends", "rpcreceives", "badxids", "inflightsends",
      "backlogutil">>

xprttcpFields ==
    <<"bind_count", "connect_count", "connect_time", "idle_time", "rpcsends",
      "rpcreceives", "badxids", "inflightsends", "backlogutil">>

nfsopFields ==
    <<"ops", "trans", "timeouts", "bytes_sent", "bytes_recv", "queue_time",
      "response_time", "total_time", "errors">>

-----------------------------------------------------------------------------
(* NFSClient.Init. *)

\* the operation map built from one version's list
buildOps(versionFields, include, exclude) ==
    (IF Len(include) = 0 THEN versionFields ELSE Range(include)) \ Range(exclude)

HasChar(s, c) == IndexOf(s, c) # 0

\* regexp.Compile fails.  The patterns of this model are literal text with an
\* optional leading "^", and text with an unclosed "[", which does not compile.
CompileFails(pattern) == HasChar(pattern, "[") /\ ~HasChar(pattern, "]")

\* the patterns compiled before the first failure, and whether one failed
compileAll(patterns) ==
    LET bad == {i \in 1..Len(patterns) : CompileFails(patterns[i])}
        stop == IF bad = {} THEN Len(patterns) + 1
                ELSE CHOOSE i \in bad : \A j \in bad : i <= j
    IN  [regex |-> SubSeq(patterns, 1, stop - 1), failed |-> bad # {}]

HasPrefix(s, p) == Len(p) <= Len(s) /\ SubSeq(s, 1, Len(p)) = p

\* regexp.MatchString for those patterns: unanchored unless the pattern
\* starts with "^"
MatchString(regex, s) ==
    IF HasPrefix(regex, "^")
    THEN HasPrefix(s, Tail(regex))
    ELSE \E i \in 1..(Len(s) - Len(regex) + 1) :
             SubSeq(s, i, i + Len(regex) - 1) = regex

PluginInit ==
    /\ pc = "constructed"
    /\ nfs3Ops' = buildOps(nfs3Fields, IncludeOperations, ExcludeOperations)
    /\ nfs4Ops' = buildOps(nfs4Fields, IncludeOperations, ExcludeOperations)
    /\ LET inc == compileAll(IncludeMounts)
           exc == compileAll(ExcludeMounts)
       IN  IF inc.failed
           THEN /\ includeMountRegex' = inc.regex
                /\ excludeMountRegex' = <<>>
                /\ pc' = "initfailed"
           ELSE /\ includeMountRegex' = inc.regex
                /\ excludeMountRegex' = exc.regex
                /\ pc' = IF exc.failed THEN "initfailed" ELSE "ready"
    /\ UNCHANGED <<config, file, pos, mount, version, export, acc, calls>>

-----------------------------------------------------------------------------
(* parseStat. *)

\* acc.AddFields(name, fields, tags): the accumulator keeps the fields and
\* tags as they are at the call.  "at" is the line the call was made for.
AddFields(out, name, fields, tags, at) ==
    Append(out, [name |-> name, fields |-> fields, tags |-> tags, at |-> at])

\* fields[names[i]] = nline[i + off] for the first n names (a Go map
\* assignment: an earlier value under the same name is replaced)
setFields(fields, names, nline, off, n) ==
    [k \in {names[i] : i \in 1..n} |->
        nline[(CHOOSE i \in 1..n : names[i] = k) + off]] @@ fields

\* float64(a) / float64(b), kept as the pair it is computed from
Ratio(a, b) == [num |-> a, den |-> b]

FloatZero == [num |-> 0, den |-> 1]

\* the basic category for READ alone
isReadOnly(first) == first = "READ"

isReadWrite(first) == first \in {"READ", "WRITE"}

basicFields(nline) ==
    [ops |-> nline[1],
     retrans |-> Wrap(nline[2] - nline[1]),
     bytes |-> Wrap(nline[4] + nline[5]),
     rtt |-> nline[7],
     exe |-> nline[8],
     rtt_per_op |-> IF nline[1] > 0 THEN Ratio(nline[7], nline[1]) ELSE FloatZero]

\* the first switch of parseStat; s carries fields, tags, the metrics added
\* so far and whether an index ran out of range
basicStat(s, first, nline, at) ==
    IF ~isReadWrite(first) THEN s
    ELSE IF Len(nline) < 8 THEN [s EXCEPT !.panic = TRUE]
    ELSE LET fields == basicFields(nline)
             tags == ("operation" :> first) @@ s.tags
         IN  [fields |-> fields, tags |-> tags, panic |-> FALSE,
              out |-> AddFields(s.out, "nfsstat", fields, tags, at)]

\* one positional category of the full statistics: guard is the code's
\* length test, off the offset into nline
positional(s, name, names, nline, off, guard, at) ==
    IF ~guard THEN s
    ELSE IF Len(nline) < Len(names) + off THEN [s EXCEPT !.panic = TRUE]
    ELSE LET fields == setFields(s.fields, names, nline, off, Len(names))
         IN  [s EXCEPT !.fields = fields,
                       !.out = AddFields(s.out, name, fields, s.tags, at)]

xprtGuard(nline, names) == Len(nline) + 2 >= Len(names)

\* the switch on first under n.Fullstat
fullCategory(s, first, line, nline, at) ==
    CASE first = "events" ->
            positional(s, "nfs_events", eventsFields, nline, 0,
                       Len(nline) >= Len(eventsFields), at)
      [] first = "bytes" ->
            positional(s, "nfs_bytes", bytesFields, nline, 0,
                       Len(nline) >= Len(bytesFields), at)
      [] first = "xprt" /\ Len(line) > 1 /\ line[2] = "tcp" ->
            positional(s, "nfs_xprt_tcp", xprttcpFields, nline, 2,
                       xprtGuard(nline, xprttcpFields), at)
      [] first = "xprt" /\ Len(line) > 1 /\ line[2] = "udp" ->
            positional(s, "nfs_xprt_udp", xprtudpFields, nline, 2,
                       xprtGuard(nline, xprtudpFields), at)
      [] OTHER -> s

isTrackedOp(ver, first, ops3, ops4) ==
    (ver = "3" /\ first \in ops3) \/ (ver = "4" /\ first \in ops4)

\* the per-operation metric under n.Fullstat
opsStat(s, first, ver, nline, ops3, ops4, at) ==
    IF ~isTrackedOp(ver, first, ops3, ops4) THEN s
    ELSE LET tags == ("operation" :> first) @@ s.tags
         IN  IF Len(nline) <= Len(nfsopFields)
             THEN LET fields == setFields(s.fields, nfsopFields, nline, 0, Len(nline))
                  IN  [s EXCEPT !.tags = tags, !.fields = fields,
                                !.out = AddFields(s.out, "nfs_ops", fields, tags, at)]
             ELSE [s EXCEPT !.tags = tags]

\* parseStat: the metrics it adds and how it ends: "ok" (returns nil),
\* "error" (returns the conversion's error) or "panic" (index out of range)
parseStat(mountpoint, exp, ver, line, full, ops3, ops4, at) ==
    LET conv == convertToUint64(line)
        nline == conv.nline
        first == ReplaceFirstColon(line[1])
        s0 == [fields |-> <<>>, panic |-> FALSE, out |-> <<>>,
               tags |-> [mountpoint |-> mountpoint, serverexport |-> exp]]
        s1 == basicStat(s0, first, nline, at)
        s2 == IF s1.panic \/ ~full THEN s1
              ELSE fullCategory(s1, first, line, nline, at)
        s3 == IF s2.panic \/ ~full THEN s2
              ELSE opsStat(s2, first, ver, nline, ops3, ops4, at)
    IN  IF conv.err THEN [emitted |-> <<>>, result |-> "error"]
        ELSE IF Len(nline) = 0 THEN [emitted |-> <<>>, result |-> "ok"]
        ELSE [emitted |-> s3.out, result |-> IF s3.panic THEN "panic" ELSE "ok"]

-----------------------------------------------------------------------------
(* The lines a mountstats file of the model can hold. *)

BlockMnt == "device srv:/exp mounted on /mnt with fstype nfs statvers=1.1"

BlockData == "device srv:/exp2 mounted on /data with fstype nfs4 statvers=1.1"

\* a block-start line whose first token is READ
BlockRead == "READ srv:/x 1 2 /rd 0 3 4 fstype nfs"

Vers3 == "RPC iostats version: 1.0 p/v: 100003/3 (nfs)"

Vers4 == "RPC iostats version: 1.0 p/v: 100003/4 (nfs4)"

VersNoSlash == "RPC iostats version: 1.0 p/v: 100003 (nfs4)"

VersTwoSlashes == "RPC iostats version: 1.0 p/v: 1/4/2 (nfs4)"

\* a version-marker line that also is a block-start line
VersBlock == "device srv:/exp3 mounted on /both with p/v:1/3 fstype nfs (nfs)"

ReadOk == "READ: 5 7 0 100 20 0 30 40"

WriteWrap == "WRITE: 3 1 0 1048575 1 0 6 9"

ReadShort == "READ: 1 2 3"

ReadText == "READ: x 2 0 1 1 0 3 4"

ReadOverflow == "READ: 1 2 3 4 5 6 7 99999999"

WriteOverflowText == "WRITE: 1 99999999x 3 4 5 6 7 8"

GetattrNine == "GETATTR: 5 5 0 0 0 2 1 0 0"

GetattrTen == "GETATTR: 1 2 3 4 5 6 7 8 9 10"

OpenFour == "OPEN: 1 1 0 0"

\* READ lines that carry a version marker and no "/" in token[5]
ReadVersNoSlash == "READ: 1 2 3 4 5 6 7 8 (nfs)"

ReadVersNoSlashOverflow == "READ: 1 2 3 4 5 6 7 99999999 (nfs)"

EventsFull == "events: 1 2 3 4 5 6 7 8 9 10 11 12 13 14 15 16 17 18 19 20 21 22 23 24 25 26 27"

BytesFull == "bytes: 1 2 3 4 5 6 7 8"

XprtTcpFull == "xprt: tcp 832 0 1 0 11 5 5 0 6 7"

XprtTcpEight == "xprt: tcp 832 0 1 0 11 5 5"

XprtTcpThree == "xprt: tcp 1 2"

XprtUdpFull == "xprt: udp 832 0 1 0 11 5 5"

OneToken == "per-op"

BlankLine == "  "

ScanLines ==
    {BlockMnt, BlockData, BlockRead, Vers3, VersNoSlash, VersTwoSlashes,
     VersBlock, ReadOk, BlankLine}

StatLines ==
    {ReadOk, WriteWrap, ReadShort, ReadText, ReadOverflow, WriteOverflowText,
     GetattrNine, GetattrTen, OpenFour, EventsFull, BytesFull, XprtTcpFull,
     XprtTcpEight, XprtTcpThree, XprtUdpFull, OneToken, ReadVersNoSlash,
     ReadVersNoSlashOverflow}

\* strings.Fields(scanner.Text()) of every line a file of the model can hold
Tokens == 
    [text \in ScanLines \cup StatLines \cup {Vers4} |->
        Fields(text)]

-----------------------------------------------------------------------------
(* processText and Gather. *)

isBlockStart(line) ==
    /\ Len(line) > 4
    /\ Contains("fstype", line)
    /\ (Contains("nfs", line) \/ Contains("nfs4", line))

isVersionLine(line) ==
    /\ Len(line) > 5
    /\ (Contains("(nfs)", line) \/ Contains("(nfs4)", line))

\* a slip in the index: the token before the mount point
blockMountOffByOne(line) == line[4]

blockMount(line) == line[5]

blockExport(line) == line[2]

\* the mount filter without its exclude patterns
skipMountIncludeOnly(m, include, exclude) ==
    Len(include) > 0 /\ ~\E i \in 1..Len(include) : MatchString(include[i], m)

\* the mount filter of processText: the value of skip before parseStat
skipMount(m, include, exclude) ==
    LET skipInc == Len(include) > 0 /\ ~\E i \in 1..Len(include) : MatchString(include[i], m)
    IN  IF ~skipInc /\ Len(exclude) > 0
        THEN \E i \in 1..Len(exclude) : MatchString(exclude[i], m)
        ELSE skipInc

\* Gather up to the call of processText: the file is there and readable,
\* the cycle starts with empty mount, version and export
Gather ==
    /\ pc \in {"ready", "done", "failed", "ioerror"}
    /\ \E readable \in BOOLEAN :
          pc' = IF readable THEN "scanning" ELSE "ioerror"
    /\ pos' = 0
    /\ mount' = ""
    /\ version' = ""
    /\ export' = ""
    /\ acc' = <<>>
    /\ calls' = <<>>
    /\ UNCHANGED <<config, tables, file>>

\* one iteration of the loop of processText
ScanLine ==
    /\ pc = "scanning"
    /\ pos < Len(file)
    /\ pos' = pos + 1
    /\ LET line == Tokens[file[pos + 1]]
           block == isBlockStart(line)
           vers == ~block /\ isVersionLine(line)
           parts == Split(line[6], "/")
           mount1 == IF block THEN blockMount(line) ELSE mount
           export1 == IF block THEN blockExport(line) ELSE export
           version1 == IF vers THEN parts[2] ELSE version
           r == parseStat(mount1, export1, version1, line, Fullstat,
                          nfs3Ops, nfs4Ops, pos + 1)
       IN  IF Len(line) = 0
           THEN UNCHANGED <<pc, mount, version, export, acc, calls>>
           ELSE IF vers /\ Len(parts) < 2
           THEN /\ pc' = "panicked"
                /\ UNCHANGED <<mount, version, export, acc, calls>>
           ELSE /\ mount' = mount1
                /\ export' = export1
                /\ version' = version1
                /\ IF Len(mount1) = 0 \/ skipMount(mount1, includeMountRegex, excludeMountRegex)
                   THEN UNCHANGED <<pc, acc, calls>>
                   ELSE /\ calls' = Append(calls, [at |-> pos + 1, mount |-> mount1,
                                                    export |-> export1, version |-> version1])
                        /\ acc' = acc \o r.emitted
                        /\ pc' = CASE r.result = "ok" -> "scanning"
                                   [] r.result = "error" -> "failed"
                                   [] r.result = "panic" -> "panicked"
    /\ UNCHANGED <<config, tables, file>>

\* scanner.Scan() returns false: processText returns nil
ScanEnd ==
    /\ pc = "scanning"
    /\ pos = Len(file)
    /\ pc' = "done"
    /\ UNCHANGED <<config, tables, file, pos, mount, version, export, acc, calls>>

Next == PluginInit \/ Gather \/ ScanLine \/ ScanEnd

-----------------------------------------------------------------------------
(* The inputs: configurations and mountstats files. *)

Preludes == {<<>>, <<BlockMnt, Vers3>>, <<BlockData, Vers4>>}

NoFilter == <<<<>>, <<>>>>

\* configurations: Fullstat, the mount filter (include patterns, exclude
\* patterns), the operation filter (include list, exclude list)
ScanConfigs ==
    {<<FALSE, NoFilter, NoFilter>>,
     <<TRUE, NoFilter, NoFilter>>,
     <<FALSE, <<<<"/mnt", "^/rd">>, <<>>>>, NoFilter>>,
     <<FALSE, <<<<>>, <<"^/data">>>>, NoFilter>>,
     <<TRUE, <<<<"/">>, <<"mnt", "both">>>>, NoFilter>>,
     <<FALSE, <<<<"/mnt">>, <<"[">>>>, NoFilter>>}

StatConfigs ==
    {<<FALSE, NoFilter, NoFilter>>,
     <<TRUE, NoFilter, NoFilter>>,
     <<TRUE, NoFilter, <<<<"GETATTR", "OPEN", "events">>, <<>>>>>>,
     <<TRUE, NoFilter, <<<<>>, <<"READ", "GETATTR">>>>>>,
     <<FALSE, <<<<"^/mnt">>, <<>>>>, NoFilter>>}

\* the plugin as constructed from its configuration, before Init
Constructed(full, mounts, ops, f) ==
    /\ Fullstat = full
    /\ IncludeMounts = mounts[1]
    /\ ExcludeMounts = mounts[2]
    /\ IncludeOperations = ops[1]
    /\ ExcludeOperations = ops[2]
    /\ nfs3Ops = {}
    /\ nfs4Ops = {}
    /\ includeMountRegex = <<>>
    /\ excludeMountRegex = <<>>
    /\ file = f
    /\ pc = "constructed"
    /\ pos = 0
    /\ mount = ""
    /\ version = ""
    /\ export = ""
    /\ acc = <<>>
    /\ calls = <<>>

\* any file of scanner-level lines
InitScan ==
    \E c \in ScanConfigs, f \in SeqsUpTo(ScanLines, MaxLines) :
        Constructed(c[1], c[2], c[3], f)

\* a mount block's head followed by any statistics lines
InitStat ==
    \E c \in StatConfigs, p \in Preludes, f \in SeqsUpTo(StatLines, MaxStatLines) :
        Constructed(c[1], c[2], c[3], p \o f)

Init == InitScan \/ InitStat

Spec == Init /\ [][Next]_vars

SpecScan == InitScan /\ [][Next]_vars

SpecStat == InitStat /\ [][Next]_vars

-----------------------------------------------------------------------------
(* The terms the properties are stated in. *)

\* the tokens of line j of the file
Line(j) == Tokens[file[j]]

HasToken(l, t) == t \in Range(l)

\* a block-start line: more than 4 tokens, among them fstype and nfs or nfs4
BlockStartLine(l) ==
    Len(l) > 4 /\ HasToken(l, "fstype") /\ (HasToken(l, "nfs") \/ HasToken(l, "nfs4"))

\* a version-marker line: more than 5 tokens, among them (nfs) or (nfs4)
VersionMarkerLine(l) ==
    Len(l) > 5 /\ (HasToken(l, "(nfs)") \/ HasToken(l, "(nfs4)"))

\* the last block-start line among lines 1..j, 0 when there is none
LastBlockStart(j) ==
    LET B == {i \in 1..j : BlockStartLine(Line(i))}
    IN  IF B = {} THEN 0 ELSE CHOOSE i \in B : \A k \in B : k <= i

\* the mount filter's contract
Accepted(m) ==
    /\ \/ Len(includeMountRegex) = 0
       \/ \E i \in 1..Len(includeMountRegex) : MatchString(includeMountRegex[i], m)
    /\ ~\E i \in 1..Len(excludeMountRegex) : MatchString(excludeMountRegex[i], m)

\* line j was handed to parseStat in this cycle
Processed(j) == \E k \in 1..Len(calls) : calls[k].at = j

\* the metrics added for line j
MetricsAt(j) == SelectSeq(acc, LAMBDA m : m.at = j)

\* the text after the first "/" of s
AfterSlash(s) == SubSeq(s, IndexOf(s, "/") + 1, Len(s))

-----------------------------------------------------------------------------
(* C1: every metric carries as mountpoint token[4] and as serverexport      *)
(* token[1] of the last block-start line read when the metric is added (the *)
(* line the metric is added for included); no metric is added before the    *)
(* first block-start line, and no metric has an empty mountpoint.           *)
C1_MountOfLastBlockStart ==
    \A k \in 1..Len(acc) :
        LET b == LastBlockStart(acc[k].at)
        IN  /\ b > 0
            /\ acc[k].tags.mountpoint = Line(b)[5]
            /\ acc[k].tags.serverexport = Line(b)[2]
            /\ acc[k].tags.mountpoint # ""

\* a metric added for a statistics line after the mount changed
C1_Witness ==
    \E k \in 1..Len(acc) :
        LET b == LastBlockStart(acc[k].at)
        IN  /\ 1 < b /\ b < acc[k].at
            /\ LastBlockStart(b - 1) > 0
            /\ Line(LastBlockStart(b - 1))[5] # Line(b)[5]

(* C2: a line is handed to parseStat only under a mount the filter accepts  *)
(* (no include pattern or one that matches, and no exclude pattern that     *)
(* matches), so every metric belongs to an accepted mount.                  *)
C2_OnlyAcceptedMounts ==
    /\ \A k \in 1..Len(calls) : Accepted(calls[k].mount)
    /\ \A k \in 1..Len(acc) : Accepted(acc[k].tags.mountpoint)

\* a READ line with all its fields was read under two mounts, one that an
\* exclude pattern rejects (no metric) and one that is accepted (a metric)
C2_Witness ==
    /\ Len(excludeMountRegex) > 0
    /\ \E j \in 1..pos :
          /\ file[j] = ReadOk
          /\ LastBlockStart(j) > 0
          /\ ~Accepted(Line(LastBlockStart(j))[5])
          /\ ~Processed(j)
    /\ Len(acc) > 0

(* C10: every line with more than 5 tokens that contains (nfs) or (nfs4)    *)
(* sets version to the text after the "/" of token[5], leaves mount and     *)
(* export as they are and does not fail, whatever token[5] looks like and   *)
(* whether or not the line is a block-start line too.                       *)
C10_VersionMarkerSetsVersion ==
    [][(pc = "scanning" /\ pos' = pos + 1 /\ VersionMarkerLine(Line(pos + 1)))
          => /\ version' = AfterSlash(Line(pos + 1)[6])
             /\ mount' = mount
             /\ export' = export
             /\ pc' = "scanning"]_vars

-----------------------------------------------------------------------------
(* The terms of the properties about statistics lines. *)

\* the leading token of a line, its first ":" removed
First(l) == ReplaceFirstColon(l[1])

AllDigits(s) == \A i \in 1..Len(s) : IsDigit(Char(s, i))

RECURSIVE DecimalValue(_)
DecimalValue(s) ==
    IF Len(s) = 0 THEN 0
    ELSE 10 * DecimalValue(SubSeq(s, 1, Len(s) - 1)) + DigitOf(Char(s, Len(s)))

\* a decimal token whose value exceeds the largest unsigned value
ExceedsRange(tok) == Len(tok) > 0 /\ AllDigits(tok) /\ DecimalValue(tok) > MaxUint64

\* a token that starts with decimal digits whose value exceeds it
PrefixExceedsRange(tok) == \E n \in 1..Len(tok) : ExceedsRange(SubSeq(tok, 1, n))

\* the numeric fields of a line: its tokens after the first, converted
NumericFields(l) == convertToUint64(l).nline

\* how many numeric fields a line has; none when the conversion fails
FieldCount(l) ==
    IF \E i \in 2..Len(l) : PrefixExceedsRange(l[i]) THEN 0 ELSE Len(l) - 1

\* the scan ended at line j without finishing it
AbortedAt(j) == pos = j /\ pc \in {"failed", "panicked"}

BasicMetrics == SelectSeq(acc, LAMBDA m : m.name = "nfsstat")

\* the lines that are to give a basic metric
BasicLines ==
    {j \in 1..pos : /\ Processed(j)
                    /\ First(Line(j)) \in {"READ", "WRITE"}
                    /\ FieldCount(Line(j)) >= 8}

\* the operation filter's contract for one version's vocabulary
TrackedOps(vocabulary) ==
    (IF Len(IncludeOperations) = 0
     THEN vocabulary
     ELSE Range(IncludeOperations) \cap vocabulary) \ Range(ExcludeOperations)

\* the version parseStat was called with for line j
VersionAt(j) == (CHOOSE c \in Range(calls) : c.at = j).version

-----------------------------------------------------------------------------
(* C3, as stated: processText returns an error exactly when a processed     *)
(* line has a token after the first whose decimal value exceeds the largest *)
(* unsigned value.                                                          *)
C3_ErrorIffDecimalOverflow ==
    (pc = "failed") <=>
        \E k \in 1..Len(calls) :
            \E i \in 2..Len(Line(calls[k].at)) : ExceedsRange(Line(calls[k].at)[i])

(* C3, amended: processText returns an error exactly when a line handed to  *)
(* parseStat has a token after the first that starts with decimal digits    *)
(* whose value exceeds the largest unsigned value.  The scan stops at that  *)
(* line: the metrics added before are kept, none is added for that line or  *)
(* a later one.                                                             *)
C3_ErrorIffRangeError ==
    /\ [](/\ (pc = "failed") <=>
                \E k \in 1..Len(calls) :
                    \E i \in 2..Len(Line(calls[k].at)) :
                        PrefixExceedsRange(Line(calls[k].at)[i])
          /\ pc = "failed" =>
                /\ calls[Len(calls)].at = pos
                /\ \A k \in 1..Len(acc) : acc[k].at < pos)
    /\ [][pc' = "failed" => acc' = acc]_vars

\* the scan failed on a line after one that gave a metric
C3_Witness ==
    /\ pc = "failed"
    /\ Len(acc) > 0
    /\ \E i \in 2..Len(Line(pos)) :
          PrefixExceedsRange(Line(pos)[i]) /\ ~ExceedsRange(Line(pos)[i])

(* C4: a READ or WRITE line with 1 to 7 numeric fields gives no basic       *)
(* metric and the scan goes on with the next line.                          *)
C4_ShortReadWriteIsSkipped ==
    \A j \in 1..pos :
        (/\ Processed(j)
         /\ First(Line(j)) \in {"READ", "WRITE"}
         /\ FieldCount(Line(j)) \in 1..7)
            => MetricsAt(j) = <<>> /\ ~AbortedAt(j)

(* C5: in full mode an "xprt tcp" (udp) line gives an xprt-tcp (xprt-udp)   *)
(* metric only if each of the 9 (6) counters i has a field at position      *)
(* i + 2, and then counter i is that field; with fewer fields nothing is    *)
(* added and the scan goes on.                                              *)
C5_XprtNeedsFieldsAfterOffset ==
    \A j \in 1..pos :
        LET l == Line(j)
            f == NumericFields(l)
            tcp == l[2] = "tcp"
            names == IF tcp THEN xprttcpFields ELSE xprtudpFields
            name == IF tcp THEN "nfs_xprt_tcp" ELSE "nfs_xprt_udp"
            enough == Len(f) >= Len(names) + 2
            added == SelectSeq(MetricsAt(j), LAMBDA m : m.name = name)
        IN  (/\ Fullstat
             /\ Processed(j)
             /\ First(l) = "xprt"
             /\ Len(l) > 1
             /\ l[2] \in {"tcp", "udp"}
             /\ FieldCount(l) > 0)
                => /\ enough => /\ Len(added) = 1
                                /\ \A i \in 1..Len(names) :
                                      added[1].fields[names[i]] = f[i + 2]
                   /\ ~enough => added = <<>> /\ ~AbortedAt(j)

(* C6: every nfs_ops metric is added in full mode only, for a line whose    *)
(* leading token is tracked for the current version and that has k numeric  *)
(* fields, 1 <= k <= 9; its fields are exactly the first k of the nine      *)
(* names, each with the field at its position, and its operation tag is the *)
(* leading token.                                                           *)
C6_OpsMetricHasExactlyTheNamedFields ==
    \A n \in 1..Len(acc) :
        acc[n].name = "nfs_ops" =>
            LET m == acc[n]
                l == Line(m.at)
                f == NumericFields(l)
                k == Len(f)
            IN  /\ Fullstat
                /\ \/ VersionAt(m.at) = "3" /\ First(l) \in nfs3Ops
                   \/ VersionAt(m.at) = "4" /\ First(l) \in nfs4Ops
                /\ 1 <= k /\ k <= 9
                /\ DOMAIN m.fields = {nfsopFields[i] : i \in 1..k}
                /\ \A i \in 1..k : m.fields[nfsopFields[i]] = f[i]
                /\ m.tags.operation = First(l)

(* C7: after Init the tracked set of each version is its default list when  *)
(* include_operations is empty, else include_operations intersected with    *)
(* the version's vocabulary, minus exclude_operations.                      *)
C7_TrackedOpsWithinVocabulary ==
    pc # "constructed" =>
        /\ nfs3Ops = TrackedOps(nfs3Fields)
        /\ nfs4Ops = TrackedOps(nfs4Fields)

(* C8: the basic metrics are exactly one for every processed line whose     *)
(* leading token is READ or WRITE and that has at least 8 numeric fields,   *)
(* in the order of the lines, tagged with the leading token and a non-empty *)
(* accepted mount, in full mode or not; without full mode there is no other *)
(* metric.                                                                  *)
C8_OnlyBasicWithoutFullstat ==
    /\ ~Fullstat => BasicMetrics = acc
    /\ Len(BasicMetrics) = Cardinality(BasicLines)
    /\ \A k \in 1..Len(BasicMetrics) :
          /\ BasicMetrics[k].at \in BasicLines
          /\ BasicMetrics[k].tags.operation = First(Line(BasicMetrics[k].at))
          /\ BasicMetrics[k].tags.mountpoint # ""
          /\ Accepted(BasicMetrics[k].tags.mountpoint)
          /\ k < Len(BasicMetrics) => BasicMetrics[k].at < BasicMetrics[k + 1].at

\* without full mode, a READ and a WRITE line gave their metrics and a line
\* of another category was processed with them
C8_Witness ==
    /\ ~Fullstat
    /\ \E j \in 1..pos : Processed(j) /\ file[j] \in {GetattrNine, EventsFull, XprtTcpFull}
    /\ \E k \in 1..Len(acc) : acc[k].tags.operation = "WRITE"

(* C9: the basic metric of a line with numeric fields f has ops = f[0],     *)
(* rtt = f[6], exe = f[7], retrans the integer f[1] - f[0], bytes the       *)
(* integer f[3] + f[4], and rtt_per_op exactly 0 when f[0] = 0.             *)
C9_BasicFieldsAreExact ==
    \A k \in 1..Len(BasicMetrics) :
        LET m == BasicMetrics[k]
            f == NumericFields(Line(m.at))
        IN  /\ m.fields.ops = f[1]
            /\ m.fields.rtt = f[7]
            /\ m.fields.exe = f[8]
            /\ m.fields.retrans = f[2] - f[1]
            /\ m.fields.bytes = f[4] + f[5]
            /\ f[1] = 0 => m.fields.rtt_per_op = FloatZero

====
